---- MODULE Spec2Model ----
(***************************************************************************)
(* A model of the thevenin package: the Experiment step sequencer          *)
(* (add_step and its time-span normalisation), the Model's live state      *)
(* across run_step / run / pre, and the stitching of StepSolutions into a  *)
(* CycleSolution.                                                          *)
(*                                                                         *)
(* Times are exact: a time is an integer number of ticks, Ticks ticks to   *)
(* one time unit, so that np.linspace(0, t_max, Nt) is exact for every Nt  *)
(* the model draws.                                                        *)
(***************************************************************************)
EXTENDS Integers, Sequences, FiniteSets, TLC

\* ------------------------------------------------------------------ bounds

\* Most steps one Experiment holds.
MaxSteps == 1
\* Largest t_max, in time units, passed to add_step.
MaxTmax == 2
\* Largest Nt passed to add_step as (t_max, Nt).
MaxNt == 3
\* Largest dt, in half time units, passed to add_step as (t_max, dt).
MaxDt == 3
\* Longest explicit array passed to add_step.
MaxLen == 2
\* A solver failure comes after at most this many recorded samples.
MaxFail == 2
\* Largest total experiment time, in time units, the Model is run to.
MaxClock == 4
\* Most StepSolutions one CycleSolution is made of.
MaxCycle == 3
\* Largest num_RC_pairs of a Model.
MaxRC == 2

RECURSIVE Factorial(_)
Factorial(n) == IF n <= 1 THEN 1 ELSE n * Factorial(n - 1)

\* Ticks per time unit: every k * t_max / (Nt - 1) is a whole number of ticks.
Ticks == 2 * Factorial(MaxNt - 1)

\* ------------------------------------------------------------------- state

VARIABLES
    steps,      \* Experiment.steps: the stored step dictionaries, in order
    exp_call,   \* the last add_step call: the kind of 'tspan' it passed and t_max
    exp_opts,   \* the Experiment's solver options: those of all steps, and each step's
    exp_err,    \* what the last add_step call raised, "none" when it returned
    live,       \* the Model's live state: stored time t0, state sv0, derivative svdot0
    mdl_call,   \* the last call on the Model: its name and arguments
    mdl_prev,   \* the live state when the last call was made
    mdl_ret,    \* what the last call returned or raised
    mdl,        \* the Model's num_RC_pairs, its Rj and Cj attributes, its pointers
    exec,       \* the position of a run_step in progress: its phase and what it holds
    cyc,        \* a CycleSolution: its StepSolutions, t_shift, stitched arrays
    cyc_call,   \* the last call on the CycleSolution
    cyc_ret     \* what that call returned

expVars == << steps, exp_call, exp_err, exp_opts >>

mdlVars == << live, mdl_call, mdl_prev, mdl_ret, mdl, exec >>

cycVars == << cyc, cyc_call, cyc_ret >>

vars == << expVars, mdlVars, cycVars >>

\* ------------------------------------------------ numpy helpers (exact)

Last(s) == s[Len(s)]

\* The least k >= 0 with k * b >= a, for b > 0: ceil(a / b) clipped at 0.
CeilDiv(a, b) == IF a <= 0 THEN 0 ELSE (a + b - 1) \div b

\* np.linspace(0., t_max, Nt), Nt >= 0: Nt samples, the last one t_max.
Linspace(t_max, Nt) ==
    IF Nt = 1 THEN << 0 >>
    ELSE [k \in 1..Nt |-> ((k - 1) * t_max) \div (Nt - 1)]

\* Length of np.arange(0., t_max, dt): ceil(t_max / dt), 0 when not positive.
ArangeLen(t_max, dt) ==
    IF dt > 0 THEN CeilDiv(t_max, dt) ELSE CeilDiv(-t_max, -dt)

\* np.arange(0., t_max, dt), dt # 0: 0, dt, 2 dt, ... short of t_max.
Arange(t_max, dt) == [k \in 1..ArangeLen(t_max, dt) |-> (k - 1) * dt]

\* all(np.diff(a) > 0)
Increasing(a) == \A i \in 1..(Len(a) - 1) : a[i] < a[i + 1]

\* ------------------------------------------------------------ Experiment

\* The control modes add_step accepts.
Modes == {"current_A", "current_C", "voltage_V", "power_W"}

\* The limit names add_step accepts.
LimitNames == {"soc", "temperature_K", "current_A", "current_C", "voltage_V",
               "power_W", "capacity_Ah", "time_s", "time_min", "time_h"}

\* Experiment.num_steps
num_steps == Len(steps)

NoError == "none"

\* 'mode' is invalid.
CheckMode(mode) == IF mode \in Modes THEN NoError ELSE "ValueError: mode"

\* CheckLimits looking at the first name only.
CheckLimitsFirstOnly(limits) ==
    IF Len(limits) = 0 \/ limits[1][1] \in LimitNames
    THEN NoError ELSE "ValueError: limits"

\* A 'limits' name is invalid. limits is a sequence of <<name, value>> pairs.
CheckLimits(limits) ==
    IF \A i \in 1..Len(limits) : limits[i][1] \in LimitNames
    THEN NoError ELSE "ValueError: limits"

\* CheckTspan without its length check.
CheckTspanNoLength(ndim, a) ==
    IF ndim # 1 THEN "ValueError: tspan one-dimensional"
    ELSE IF Len(a) = 0 THEN "IndexError: tspan[0]"
    ELSE IF a[1] # 0 THEN "ValueError: tspan[0] zero"
    ELSE IF ~Increasing(a) THEN "ValueError: tspan increasing"
    ELSE NoError

\* The checks every time array passes before it is stored, in the order
\* add_step raises them; an empty array has no tspan[0] to read.
CheckTspan(ndim, a) ==
    IF ndim # 1 THEN "ValueError: tspan one-dimensional"
    ELSE IF Len(a) = 0 THEN "IndexError: tspan[0]"
    ELSE IF a[1] # 0 THEN "ValueError: tspan[0] zero"
    ELSE IF Len(a) < 2 THEN "ValueError: tspan length"
    ELSE IF ~Increasing(a) THEN "ValueError: tspan increasing"
    ELSE NoError

\* TspanFromDt as np.arange(0., t_max + dt, dt), nothing appended: the last
\* sample overshoots t_max when dt does not divide it.
TspanFromDtOvershoot(t_max, dt) == Arange(t_max + dt, dt)

\* tspan = np.arange(0., t_max, dt), with t_max appended to the end.
TspanFromDt(t_max, dt) == Append(Arange(t_max, dt), t_max)

\* tspan = np.linspace(0., t_max, Nt)
TspanFromNt(t_max, Nt) == Linspace(t_max, Nt)

\* A 'tspan' argument: a tuple of len entries, tspan[0] = t_max and tspan[1] =
\* second of Python type 'type'.
TupleArg(len, t_max, type, second) ==
    [form |-> "tuple", len |-> len, t_max |-> t_max, type |-> type,
     second |-> second, ndim |-> 1, vals |-> << >>]

\* A 'tspan' argument: an array of ndim dimensions holding vals.
ArrayArg(ndim, vals) ==
    [form |-> "array", len |-> 0, t_max |-> 0, type |-> "ndarray",
     second |-> 0, ndim |-> ndim, vals |-> vals]

\* The time array add_step constructs from its 'tspan' argument, or the error
\* the construction raises.
MakeTspan(ts) ==
    IF ts.form = "tuple" THEN
        IF ts.len # 2 THEN [err |-> "ValueError: tspan tuple length", ndim |-> 1, a |-> << >>]
        ELSE IF ts.type = "int" THEN
            IF ts.second < 0
            THEN [err |-> "ValueError: linspace samples", ndim |-> 1, a |-> << >>]
            ELSE [err |-> NoError, ndim |-> 1, a |-> TspanFromNt(ts.t_max, ts.second)]
        ELSE IF ts.type = "float" THEN
            IF ts.second = 0
            THEN [err |-> "ZeroDivisionError: arange step", ndim |-> 1, a |-> << >>]
            ELSE [err |-> NoError, ndim |-> 1, a |-> TspanFromDt(ts.t_max, ts.second)]
        ELSE [err |-> "TypeError: tspan[1]", ndim |-> 1, a |-> << >>]
    ELSE [err |-> NoError, ndim |-> ts.ndim, a |-> ts.vals]

\* The first error add_step(mode, value, tspan, limits) raises, NoError if none.
AddStepError(mode, ts, limits) ==
    LET made == MakeTspan(ts) IN
    IF CheckMode(mode) # NoError THEN CheckMode(mode)
    ELSE IF CheckLimits(limits) # NoError THEN CheckLimits(limits)
    ELSE IF made.err # NoError THEN made.err
    ELSE CheckTspan(made.ndim, made.a)

\* The step dictionary add_step stores.
NewStep(mode, value, ts, limits) ==
    [mode |-> mode, value |-> value, tspan |-> MakeTspan(ts).a, limits |-> limits]

\* StepsAfterAdd putting the new step first.
StepsAfterAddFront(stored, mode, value, ts, limits) ==
    IF AddStepError(mode, ts, limits) = NoError
    THEN << NewStep(mode, value, ts, limits) >> \o stored
    ELSE stored

\* StepsAfterAdd appending the step before the time span is checked.
StepsAfterAddEager(stored, mode, value, ts, limits) ==
    IF CheckMode(mode) = NoError /\ CheckLimits(limits) = NoError
    THEN Append(stored, NewStep(mode, value, ts, limits))
    ELSE stored

\* Experiment.steps after add_step(mode, value, tspan, limits) on 'stored'.
StepsAfterAdd(stored, mode, value, ts, limits) ==
    IF AddStepError(mode, ts, limits) = NoError
    THEN Append(stored, NewStep(mode, value, ts, limits))
    ELSE stored

\* No solver option: the empty dictionary.
NoOptions == << >>

\* Merge with the options of the Experiment winning over the step's.
MergeDefaultsWin(options, kwargs) ==
    [k \in DOMAIN options \cup DOMAIN kwargs |->
        IF k \in DOMAIN options THEN options[k] ELSE kwargs[k]]

\* The options a step is solved with: the Experiment's, with the step's own
\* keyword arguments over them.
Merge(options, kwargs) ==
    [k \in DOMAIN options \cup DOMAIN kwargs |->
        IF k \in DOMAIN kwargs THEN kwargs[k] ELSE options[k]]

\* Experiment(**kwargs): the options that span all steps, and no step yet.
ExperimentOptions(options) == [options |-> options, kwargs |-> << >>]

\* The options after add_step(..., **kwargs) has returned err: a stored step
\* gets its merged options, the options of the Experiment and of the steps
\* before stay.
OptionsAfterAdd(opts, err, kwargs) ==
    IF err = NoError
    THEN [opts EXCEPT !.kwargs = Append(opts.kwargs, Merge(opts.options, kwargs))]
    ELSE opts

\* ------------------------------------------------------ add_step: calls

\* The tuples (t_max, Nt) and (t_max, dt) a caller passes, with tuples of a
\* wrong length and a tspan[1] that is neither int nor float.
TupleArgs ==
    { TupleArg(2, m * Ticks, "int", n) : m \in -1..MaxTmax, n \in -1..MaxNt }
    \cup { TupleArg(2, m * Ticks, "float", d * (Ticks \div 2)) :
             m \in -1..MaxTmax, d \in -1..MaxDt }
    \cup { TupleArg(2, Ticks, "str", 0), TupleArg(1, Ticks, "float", 0),
           TupleArg(3, Ticks, "float", Ticks) }

\* The sequences of length n over S.
SeqsOfLen(S, n) == [1..n -> S]

\* The values of the arrays a caller passes: on the half-unit grid, a
\* negative one included.
ArrayVals == { k * (Ticks \div 2) : k \in -1..2 }

\* The arrays a caller passes: every short one-dimensional array over
\* ArrayVals, and a two-dimensional one.
ArrayArgs ==
    { ArrayArg(1, v) : v \in UNION { SeqsOfLen(ArrayVals, n) : n \in 0..MaxLen } }
    \cup { ArrayArg(2, << 0, Ticks >>) }

TspanArgs == TupleArgs \cup ArrayArgs

\* The (mode, value, limits) a caller passes with every time span.
MainLoad == << "current_A", 1, << >> >>

\* Further loads: a valid one with a limit, one of an invalid mode, one of
\* an invalid limit name.
OtherLoads ==
    { << "voltage_V", 3, << << "soc", 0 >> >> >>,
      << "current", 1, << >> >>,
      << "power_W", 1, << << "voltage", 3 >> >> >> }

\* Names a caller may take for a mode or a limit: near misses of the
\* vocabulary, a limit name that is no mode and a name of another case.
OtherNames == {"current", "soc", "time_s", "Current_A", ""}

\* Loads of every mode, in and out of the vocabulary, without limits.
ModeLoads == { << mode, 1, << >> >> : mode \in Modes \cup OtherNames }

\* Loads with one limit of every name, in and out of the vocabulary, and
\* with two limits of which the second or the first is out of it.
LimitLoads ==
    { << "current_A", 1, << << name, 1 >> >> >> : name \in LimitNames \cup OtherNames }
    \cup { << "current_C", 1, << << "soc", 1 >>, << "time", 1 >> >> >>,
           << "current_C", 1, << << "time", 1 >>, << "soc", 1 >> >> >>,
           << "current_C", 1, << << "soc", 1 >>, << "time_h", 1 >> >> >> }

\* The calls of add_step: the main load with every time span, each other
\* load with a time span that is valid and one that is not, the loads of
\* every mode and limit name with a valid time span.
Calls ==
    ({ MainLoad } \X TspanArgs)
    \cup (OtherLoads \X { TupleArg(2, Ticks, "int", 2), TupleArg(3, Ticks, "float", Ticks) })
    \cup ((ModeLoads \cup LimitLoads) \X { TupleArg(2, Ticks, "int", 2) })

\* The names of the limits, in their order.
NamesOf(limits) == [i \in 1..Len(limits) |-> limits[i][1]]

\* What exp_call records of a call.
CallOf(mode, ts, limits) ==
    [form |-> ts.form, type |-> ts.type, t_max |-> ts.t_max,
     mode |-> mode, names |-> NamesOf(limits)]

\* No call of add_step yet.
NoAddStep ==
    [form |-> "none", type |-> "none", t_max |-> 0, mode |-> "none", names |-> << >>]

\* ------------------------------------------------------------------ Model

\* The Model parameters the dynamics below read: a circuit of no RC pair,
\* isothermal, without hysteresis (gamma = 0) and with ce = 1. The SOC slot
\* counts quanta of one ampere-tick of charge, so that dSOC/dt = -I * ce.
capacity == 75
T_inf == 300
soc0 == 2 * Ticks

\* The state vector [SOC, hysteresis, temperature] of a circuit of no RC pair.
SV(soc, hyst, T) == << soc, hyst, T >>

\* The rested condition at soc0: what pre(initial_state=True) produces.
Rested == [t0 |-> 0, sv0 |-> SV(soc0, 0, T_inf), svdot0 |-> SV(0, 0, 0)]

\* The load current of a current-controlled step, in A; positive discharges.
CurrentOf(step) ==
    IF step.mode = "current_C" THEN step.value * capacity ELSE step.value

\* rhs_funcs: the rates of [SOC, hysteresis, temperature] under current I.
Rates(I) == SV(-I, 0, 0)

\* The state reached from y0 after time t under current I.
StateAt(y0, I, t) == SV(y0[1] - I * t, y0[2], y0[3])

\* LimitTime with a time limit on the relative time of the step.
LimitTimeRelative(lim, t0, y0, I) ==
    IF lim[1] = "soc" THEN
        IF I > 0 /\ y0[1] > lim[2] THEN CeilDiv(y0[1] - lim[2], I)
        ELSE IF I < 0 /\ y0[1] < lim[2] THEN CeilDiv(lim[2] - y0[1], -I)
        ELSE 0
    ELSE IF lim[1] = "time_s" THEN lim[2]
    ELSE 0

\* The relative time at which one limit's event function crosses zero, 0 when
\* it does not cross after the start of the step. 'soc' watches soc - value;
\* a time limit watches the total experiment time t0 + t - value.
LimitTime(lim, t0, y0, I) ==
    IF lim[1] = "soc" THEN
        IF I > 0 /\ y0[1] > lim[2] THEN CeilDiv(y0[1] - lim[2], I)
        ELSE IF I < 0 /\ y0[1] < lim[2] THEN CeilDiv(lim[2] - y0[1], -I)
        ELSE 0
    ELSE IF lim[1] = "time_s" THEN
        IF lim[2] - t0 > 0 THEN lim[2] - t0 ELSE 0
    ELSE 0

\* The least positive member of a set of naturals, 0 when there is none.
MinPositive(S) ==
    IF \E x \in S : x > 0
    THEN CHOOSE x \in S : x > 0 /\ \A z \in S : z > 0 => x <= z
    ELSE 0

\* WithinSpan letting a crossing beyond the time span through.
WithinSpanOrBeyond(te, tspan) == te

\* The first of the limits' crossing times that lies within the time span,
\* 0 when there is none.
WithinSpan(te, tspan) == IF te > 0 /\ te <= Last(tspan) THEN te ELSE 0

\* EventTime watching the first of the step's limits only.
EventTimeFirstLimit(step, t0, y0) ==
    WithinSpan(IF step.limits = << >> THEN 0
               ELSE LimitTime(step.limits[1], t0, y0, CurrentOf(step)),
               step.tspan)

\* The time of the first terminal event of the step within its time span, 0
\* when no limit is reached: the first zero-crossing wins, whichever limit.
EventTime(step, t0, y0) ==
    WithinSpan(MinPositive({ LimitTime(step.limits[i], t0, y0, CurrentOf(step)) :
                               i \in 1..Len(step.limits) }),
               step.tspan)

\* The samples of a up to and short of x.
Before(a, x) == SelectSeq(a, LAMBDA v : v < x)

\* The times a complete integration records: the requested times short of
\* its end, and its end (the event time te, or the last requested time).
SampleTimes(tspan, te) ==
    IF te > 0 THEN Append(Before(tspan, te), te)
    ELSE Append(Before(tspan, Last(tspan)), Last(tspan))

\* Whether the oracle's failure, after 'fail' samples, comes before the
\* integration over 'times' is complete.
Fails(times, fail) == fail > 0 /\ fail < Len(times)

\* IDAResult: the fields of the solver's result for samples at times t.
IDAResult(success, status, t, y0, I) ==
    [ success |-> success,
      status  |-> status,
      t       |-> t,
      y       |-> [k \in 1..Len(t) |-> StateAt(y0, I, t[k])],
      yp      |-> [k \in 1..Len(t) |-> Rates(I)] ]

\* SolveOver giving a terminal event the status of a completed time span.
SolveOverOneStatus(step, y0, fail, te, times) ==
    IF Fails(times, fail)
    THEN IDAResult(FALSE, -1, SubSeq(times, 1, fail), y0, CurrentOf(step))
    ELSE IDAResult(TRUE, 0, times, y0, CurrentOf(step))

\* The solver's result from y0 given the event time and the times a complete
\* integration records: a terminal event is appended to the end of t, y and
\* yp (status 2); a failure leaves the samples reached, success = False and
\* a negative status.
SolveOver(step, y0, fail, te, times) ==
    IF Fails(times, fail)
    THEN IDAResult(FALSE, -1, SubSeq(times, 1, fail), y0, CurrentOf(step))
    ELSE IDAResult(TRUE, IF te > 0 THEN 2 ELSE 0, times, y0, CurrentOf(step))

\* IDASolver.solve(tspan, y0, yp0) on the step's residuals and events. (The
\* event time is bound through a singleton set, which has it evaluated once.)
Solve(step, t0, y0, fail) ==
    CHOOSE res \in { SolveOver(step, y0, fail, te, SampleTimes(step.tspan, te)) :
                       te \in { EventTime(step, t0, y0) } } : TRUE

\* StepSolution(model, ida_soln, timer): the solution of one step, holding
\* its own copy of the solver's arrays.
StepSolution(ida_soln) == ida_soln

\* ------------------------------------------------------------ rhs_funcs

\* The Coulombic efficiency counts in hundredths: Unity is ce = 1.
Unity == 100

\* SocRate scaling by ce whatever the sign of the current.
SocRateAlwaysCe(I, ce) == -I * ce

\* The SOC rate -I * ce / (3600 * Q_max), in units of 1 / (Unity * 3600 *
\* Q_max): ce is forced to one when I > 0, which discharges.
SocRate(I, ce) == -I * (IF I > 0 THEN Unity ELSE ce)

\* A load value: a constant, or a callable f(t) of the step's relative time.
Constant(v) == [callable |-> FALSE, v |-> v]

Callable(f) == [callable |-> TRUE, f |-> f]

\* The load at relative time t.
ValueAt(value, t) == IF value.callable THEN value.f[t] ELSE value.v

\* ControlResidual evaluating a callable at the start of the step.
ControlResidualAtStart(mode, value, t, I, V_cell) ==
    IF mode = "current_A" THEN I - ValueAt(value, 0)
    ELSE IF mode = "current_C" THEN I - ValueAt(value, 0) * capacity
    ELSE IF mode = "voltage_V" THEN V_cell - ValueAt(value, 0)
    ELSE I * V_cell - ValueAt(value, 0)

\* The residual of the control slot, which the solver drives to zero: the
\* step's mode selects the expression; current I and cell voltage V_cell are
\* the solver's iterates.
ControlResidual(mode, value, t, I, V_cell) ==
    IF mode = "current_A" THEN I - ValueAt(value, t)
    ELSE IF mode = "current_C" THEN I - ValueAt(value, t) * capacity
    ELSE IF mode = "voltage_V" THEN V_cell - ValueAt(value, t)
    ELSE I * V_cell - ValueAt(value, t)

\* Model.rhs_funcs(t, sv, inputs) for a Model of efficiency ce: the SOC rate
\* and the control slot.
RhsFuncsResult(t, I, V_cell, inputs, ce) ==
    [soc |-> SocRate(I, ce),
     control |-> ControlResidual(inputs.mode, inputs.value, t, I, V_cell)]

\* ------------------------------------------- parameters and state layout

\* The keys of the resistances and capacitances a circuit of n RC pairs
\* has: R0, and Rj and Cj for j = 1..n. << "R", j >> stands for 'Rj'.
BranchKeys(n) ==
    { << "R", 0 >> } \cup { << e, j >> : e \in {"R", "C"}, j \in 1..n }

\* CheckExcess looking at the resistances only.
CheckExcessResistors(n, keys) ==
    IF \A k \in keys : k[1] = "R" => k \in BranchKeys(n)
    THEN NoError ELSE "ValueError: params excess"

\* 'params' contains invalid and/or excess key/value pairs.
CheckExcess(n, keys) ==
    IF keys \subseteq BranchKeys(n) THEN NoError ELSE "ValueError: params excess"

\* 'params' lacks a resistance or a capacitance of the circuit.
CheckMissing(n, keys) ==
    IF BranchKeys(n) \subseteq keys THEN NoError ELSE "ValueError: params missing"

\* The first error in the resistances and capacitances given, NoError if none.
ParamsError(n, keys) ==
    IF CheckMissing(n, keys) # NoError THEN CheckMissing(n, keys)
    ELSE CheckExcess(n, keys)

\* Layout with the temperature ahead of the RC overpotentials.
LayoutTemperatureFirst(n) ==
    [soc |-> 0, hyst |-> 1, T_cell |-> 2, eta_j |-> [j \in 1..n |-> j + 2],
     size |-> n + 3]

\* The solution pointers of a circuit of n RC pairs: the index of each
\* quantity in the state vector, and the size of the vector.
Layout(n) ==
    [soc |-> 0, hyst |-> 1, T_cell |-> n + 2, eta_j |-> [j \in 1..n |-> j + 1],
     size |-> n + 3]

\* The rested state at soc0 laid out by the pointers ptr: no hysteresis, no
\* overpotential, the temperature of the room.
RestedState(ptr) ==
    [i \in 1..ptr.size |-> IF i - 1 = ptr.soc THEN soc0
                           ELSE IF i - 1 = ptr.T_cell THEN T_inf
                           ELSE 0]

\* The rested condition of a circuit of n RC pairs.
RestedFor(n) ==
    [t0 |-> 0, sv0 |-> RestedState(Layout(n)),
     svdot0 |-> [i \in 1..Layout(n).size |-> 0]]

\* What the Model holds of its parameters once constructed.
ModelOf(n, keys) == [num_RC_pairs |-> n, keys |-> keys, ptr |-> Layout(n)]

\* ------------------------------------------------- pre, run_step and run

\* What a failed integration raises.
SolverError == "RuntimeError: integration failed"

\* PreState keeping the stored time offset and the derivative over a reset.
PreStateKeepsClock(initial_state, lv) ==
    IF initial_state THEN [Rested EXCEPT !.t0 = lv.t0, !.svdot0 = lv.svdot0]
    ELSE lv

\* Model.pre(initial_state): True sets the rested condition at soc0, False
\* leaves the state untouched.
PreState(initial_state, lv) == IF initial_state THEN Rested ELSE lv

\* LiveAfter with the state taken from the first sample of the solution.
LiveAfterFirstSample(lv, res) ==
    [t0 |-> lv.t0 + Last(res.t), sv0 |-> res.y[1], svdot0 |-> Last(res.yp)]

\* The live state after a step: the final reached time, state and derivative.
LiveAfter(lv, res) ==
    [t0 |-> lv.t0 + Last(res.t), sv0 |-> Last(res.y), svdot0 |-> Last(res.yp)]

\* StepOutcome committing the samples reached by a failed integration.
StepOutcomeCommit(lv, res) ==
    IF res.success
    THEN [err |-> NoError, ok |-> TRUE, live |-> LiveAfter(lv, res),
          solns |-> << StepSolution(res) >>, nsolve |-> 1]
    ELSE [err |-> SolverError, ok |-> FALSE, live |-> LiveAfter(lv, res),
          solns |-> << >>, nsolve |-> 1]

\* What run_step makes of the solver's result res; 'ok' keeps the solver's
\* own verdict and 'nsolve' counts the calls of the solver.
StepOutcome(lv, res) ==
    IF res.success
    THEN [err |-> NoError, ok |-> TRUE, live |-> LiveAfter(lv, res),
          solns |-> << StepSolution(res) >>, nsolve |-> 1]
    ELSE [err |-> SolverError, ok |-> FALSE, live |-> lv,
          solns |-> << >>, nsolve |-> 1]

\* RunStepResult calling the solver a second time when the first call fails.
RunStepRetry(lv, step, fail) ==
    CHOOSE out \in
      { IF res.success THEN StepOutcome(lv, res)
        ELSE [StepOutcome(lv, Solve(step, lv.t0, lv.sv0, 0)) EXCEPT !.nsolve = 2] :
          res \in { Solve(step, lv.t0, lv.sv0, fail) } } : TRUE

\* Model.run_step(exp, stepidx) from live state lv: one call of the solver;
\* on success or on a terminal event the live state becomes the final reached
\* state and a StepSolution is returned; on failure an error is raised and
\* the live state is left as it was.
RunStepResult(lv, step, fail) ==
    CHOOSE out \in { StepOutcome(lv, res) :
                       res \in { Solve(step, lv.t0, lv.sv0, fail) } } : TRUE

\* RunStart from the rested condition, whatever the live state.
RunStartRested(lv) ==
    [err |-> NoError, ok |-> TRUE, live |-> Rested, solns |-> << >>, nsolve |-> 0,
     order |-> << >>]

\* What the loop of Model.run holds before its first pass.
RunStart(lv) ==
    [err |-> NoError, ok |-> TRUE, live |-> lv, solns |-> << >>, nsolve |-> 0,
     order |-> << >>]

\* Collect putting the solution of a pass before those so far.
CollectPrepend(acc, r) ==
    [err    |-> r.err,
     ok     |-> r.ok,
     live   |-> r.live,
     solns  |-> IF r.err = NoError THEN r.solns \o acc.solns ELSE << >>,
     nsolve |-> acc.nsolve + r.nsolve,
     order  |-> acc.order]

\* What the loop holds after a pass whose run_step gave r: the solution is
\* appended to those so far; an error discards them. 'order' lists the
\* indices run_step was called with.
Collect(acc, r) ==
    [err    |-> r.err,
     ok     |-> r.ok,
     live   |-> r.live,
     solns  |-> IF r.err = NoError THEN acc.solns \o r.solns ELSE << >>,
     nsolve |-> acc.nsolve + r.nsolve,
     order  |-> acc.order]

\* The loop of Model.run over steps k, k+1, ...: run_step for each in order
\* on the live state the steps so far have left, the first error ending it.
RECURSIVE RunLoop(_, _, _, _)
RunLoop(acc, stps, k, oracle) ==
    IF k > Len(stps) \/ acc.err # NoError THEN acc
    ELSE CHOOSE out \in
           { RunLoop([Collect(acc, r) EXCEPT !.order = Append(acc.order, k)],
                     stps, k + 1, oracle) :
               r \in { RunStepResult(acc.live, stps[k], oracle[k]) } } : TRUE

\* RunOutcome resetting after an error too.
RunOutcomeResetOnError(r, reset_state) ==
    [r EXCEPT !.live = IF reset_state THEN PreState(TRUE, r.live) ELSE r.live]

\* RunOutcome without the reset.
RunOutcomeNoReset(r, reset_state) == r

\* RunOutcome resetting whatever reset_state is.
RunOutcomeAlwaysReset(r, reset_state) ==
    IF r.err # NoError THEN r ELSE [r EXCEPT !.live = PreState(TRUE, r.live)]

\* What run makes of its loop's outcome r: pre() when reset_state is True.
RunOutcome(r, reset_state) ==
    IF r.err # NoError THEN r
    ELSE [r EXCEPT !.live = IF reset_state THEN PreState(TRUE, r.live)
                            ELSE r.live]

\* Model.run(exp, reset_state, t_shift) from live state lv: every step in
\* order, then pre() when reset_state is True.
RunResult(lv, stps, reset_state, oracle) ==
    CHOOSE out \in { RunOutcome(r, reset_state) :
                       r \in { RunLoop(RunStart(lv), stps, 1, oracle) } } : TRUE

\* The phases a run_step ends in.
FinalPhases == {"COMPLETED", "LIMIT_REACHED", "FAILED"}

\* No derivative computed yet.
NoDerivative == << >>

\* run_step has built the callables of the step: nothing is computed yet.
Initialized(stepidx, fail) ==
    [phase |-> "INITIALIZED", idx |-> stepidx, fail |-> fail, yp0 |-> NoDerivative]

\* StartIntegration without the consistent initial derivative.
StartIntegrationUninitialised(ex, yp0) == [ex EXCEPT !.phase = "INTEGRATING"]

\* The solver's init_step has given the consistent initial derivative yp0:
\* the integration can start.
StartIntegration(ex, yp0) == [ex EXCEPT !.phase = "INTEGRATING", !.yp0 = yp0]

\* The phase the solver's result ends the step in.
PhaseAfter(res) ==
    IF ~res.success THEN "FAILED"
    ELSE IF res.status = 2 THEN "LIMIT_REACHED"
    ELSE "COMPLETED"

\* What a state of another size than the circuit raises.
SizeError == "ValueError: state size"

\* The forms of pre's argument: True, False, or a Solution instance.
InitialState(kind, soln) == [kind |-> kind, soln |-> soln]

\* FinalState taking the first sample of the solution.
FinalStateFirstSample(soln) ==
    [t0 |-> Last(soln.t), sv0 |-> soln.y[1], svdot0 |-> soln.yp[1]]

\* The final state of a solution, as a live state.
FinalState(soln) ==
    [t0 |-> Last(soln.t), sv0 |-> Last(soln.y), svdot0 |-> Last(soln.yp)]

\* PreResult taking the final state of a solution of any size.
PreResultAnySize(m, lv, initial_state) ==
    IF ParamsError(m.num_RC_pairs, m.keys) # NoError
    THEN [err |-> ParamsError(m.num_RC_pairs, m.keys), ptr |-> m.ptr, live |-> lv]
    ELSE [err  |-> NoError,
          ptr  |-> Layout(m.num_RC_pairs),
          live |-> IF initial_state.kind = "True" THEN RestedFor(m.num_RC_pairs)
                   ELSE IF initial_state.kind = "False" THEN lv
                   ELSE FinalState(initial_state.soln)]

\* Model.pre(initial_state) on the Model m in live state lv: the pointers
\* are built for the circuit m has now; True sets the rested condition at
\* soc0, False leaves the state untouched, a Solution sets the final state
\* of the solution; a state of another size than the circuit is an error,
\* and so is a circuit whose resistances and capacitances do not match its
\* num_RC_pairs. An error leaves the Model as it was.
PreResult(m, lv, initial_state) ==
    IF ParamsError(m.num_RC_pairs, m.keys) # NoError
    THEN [err |-> ParamsError(m.num_RC_pairs, m.keys), ptr |-> m.ptr, live |-> lv]
    ELSE IF initial_state.kind = "True"
    THEN [err |-> NoError, ptr |-> Layout(m.num_RC_pairs),
          live |-> RestedFor(m.num_RC_pairs)]
    ELSE IF initial_state.kind = "False"
    THEN IF Len(lv.sv0) # Layout(m.num_RC_pairs).size
         THEN [err |-> SizeError, ptr |-> m.ptr, live |-> lv]
         ELSE [err |-> NoError, ptr |-> Layout(m.num_RC_pairs), live |-> lv]
    ELSE IF Len(Last(initial_state.soln.y)) # Layout(m.num_RC_pairs).size
         THEN [err |-> SizeError, ptr |-> m.ptr, live |-> lv]
         ELSE [err |-> NoError, ptr |-> Layout(m.num_RC_pairs),
               live |-> FinalState(initial_state.soln)]

\* ------------------------------------------------ CycleSolution

\* A time array moved by off.
Shifted(t, off) == [k \in 1..Len(t) |-> t[k] + off]

\* JoinTimes starting the step at the last stitched time, whatever t_shift.
JoinTimesNoShift(head, t, t_shift) ==
    IF head = << >> THEN t ELSE head \o Shifted(t, Last(head))

\* JoinTimes laying the step's own times after those stitched so far.
JoinTimesUnshifted(head, t, t_shift) == head \o t

\* The stitched times with one more step: its times follow the last stitched
\* time, t_shift later.
JoinTimes(head, t, t_shift) ==
    IF head = << >> THEN t ELSE head \o Shifted(t, Last(head) + t_shift)

\* The time array of the steps stitched together in their order.
RECURSIVE StitchTimes(_, _)
StitchTimes(solns, t_shift) ==
    IF solns = << >> THEN << >>
    ELSE CHOOSE out \in
           { JoinTimes(head, Last(solns).t, t_shift) :
               head \in { StitchTimes(SubSeq(solns, 1, Len(solns) - 1), t_shift) } } :
           TRUE

\* The state array of the steps stitched together in their order.
RECURSIVE StitchStates(_)
StitchStates(solns) ==
    IF solns = << >> THEN << >>
    ELSE StitchStates(SubSeq(solns, 1, Len(solns) - 1)) \o Last(solns).y

\* The solutions with their own time arrays moved to their stitched times.
RECURSIVE ShiftedInPlace(_, _)
ShiftedInPlace(solns, t_shift) ==
    IF Len(solns) <= 1 THEN solns
    ELSE CHOOSE out \in
           { Append(head, [Last(solns) EXCEPT
                             !.t = Shifted(Last(solns).t, Last(Last(head).t) + t_shift)]) :
               head \in { ShiftedInPlace(SubSeq(solns, 1, Len(solns) - 1), t_shift) } } :
           TRUE

\* CycleSolution shifting the time arrays of the StepSolutions themselves.
CycleSolutionInPlace(solns, t_shift) ==
    [ solns   |-> ShiftedInPlace(solns, t_shift),
      t_shift |-> t_shift,
      t       |-> StitchTimes(solns, t_shift),
      y       |-> StitchStates(solns) ]

\* CycleSolution(*soln, t_shift)
CycleSolution(solns, t_shift) ==
    [ solns   |-> solns,
      t_shift |-> t_shift,
      t       |-> StitchTimes(solns, t_shift),
      y       |-> StitchStates(solns) ]

\* No solution.
NoStep == IDAResult(FALSE, 0, << >>, SV(0, 0, 0), 0)

NoCycle == CycleSolution(<< >>, 0)

\* get_steps(idx) with an int: the StepSolution of that step; the first step
\* has index 0.
GetStep(c, idx) == c.solns[idx + 1]

\* GetRange leaving the step of the last index out.
GetRangeExclusive(c, first, last) ==
    CycleSolution(SubSeq(c.solns, first + 1, last), c.t_shift)

\* get_steps(idx) with a tuple of the first and last indices: a CycleSolution
\* of the range of requested steps.
GetRange(c, first, last) ==
    CycleSolution(SubSeq(c.solns, first + 1, last + 1), c.t_shift)

\* The CycleSolution with one more StepSolution after those it has.
Appended(c, soln) == CycleSolution(Append(c.solns, soln), c.t_shift)

\* ------------------------------------------- the Experiment's state machine

\* Experiment(): no step yet.
InitExp ==
    /\ steps = << >>
    /\ exp_call = NoAddStep
    /\ exp_err = NoError
    /\ exp_opts = ExperimentOptions(NoOptions)

\* No call on the Model yet. 'rerun' tells a run that directly follows a
\* returned run with reset_state = True.
NoCall ==
    [op |-> "none", idx |-> 0, reset_state |-> FALSE, t_shift |-> 0,
     rerun |-> FALSE,
     initial_state |-> InitialState("none", NoStep),
     num_RC_pairs |-> 0, keys |-> { }]

\* Nothing returned yet.
NoReturn ==
    [err |-> NoError, ok |-> TRUE, live |-> Rested, solns |-> << >>, nsolve |-> 0]

\* No run_step in progress.
NoExec == [phase |-> "IDLE", idx |-> 0, fail |-> 0, yp0 |-> NoDerivative]

\* Model(params): the pre-processor runs at the end of the initialisation.
InitModel ==
    /\ live = PreState(TRUE, Rested)
    /\ mdl_call = NoCall
    /\ mdl_prev = Rested
    /\ mdl_ret = NoReturn
    /\ mdl = ModelOf(0, BranchKeys(0))
    /\ exec = NoExec

\* No CycleSolution yet.
NoCycleCall == [op |-> "none", first |-> 0, last |-> 0]

NoCycleReturn == [step |-> NoStep, cycle |-> NoCycle]

InitCycle ==
    /\ cyc = NoCycle
    /\ cyc_call = NoCycleCall
    /\ cyc_ret = NoCycleReturn

\* Experiment.add_step(mode, value, tspan, limits)
AddStepWith(calls, kws, most) ==
    \E c \in calls, kwargs \in kws :
      LET ld == c[1]
          ts == c[2]
      IN
        /\ num_steps < most \/ AddStepError(ld[1], ts, ld[3]) # NoError
        /\ steps' = StepsAfterAdd(steps, ld[1], ld[2], ts, ld[3])
        /\ exp_call' = CallOf(ld[1], ts, ld[3]) @@ [kwargs |-> kwargs]
        /\ exp_err' = AddStepError(ld[1], ts, ld[3])
        /\ exp_opts' = OptionsAfterAdd(exp_opts, AddStepError(ld[1], ts, ld[3]), kwargs)
        /\ UNCHANGED << mdlVars, cycVars >>

\* add_step(mode, value, tspan, limits), without options of its own
AddStep == AddStepWith(Calls, { NoOptions }, MaxSteps)

NextExp == AddStep

\* A new Experiment, beside a new Model.
InitExperiment == InitExp /\ InitModel /\ InitCycle

SpecExp == InitExperiment /\ [][NextExp]_vars

\* ------------------------------------------------ the Model's state machine

\* The add_step calls the experiments run on the Model are built from: a
\* discharge of one time unit; a discharge of two with a SOC limit reached
\* between two requested times; a rest; a charge with a limit on the total
\* experiment time.
Discharge == << "current_A", 1, TupleArg(2, Ticks, "int", 2), << >> >>

DischargeToSoc ==
    << "current_A", 1, TupleArg(2, 2 * Ticks, "float", Ticks),
       << << "soc", Ticks \div 2 >> >> >>

Rest == << "current_A", 0, TupleArg(2, Ticks, "int", 3), << >> >>

ChargeToTime ==
    << "current_A", -1, TupleArg(2, 2 * Ticks, "float", Ticks),
       << << "time_s", 3 * Ticks >>, << "soc", 3 * Ticks >> >> >>

\* Experiment() followed by one add_step per call.
RECURSIVE BuildSteps(_)
BuildSteps(calls) ==
    IF calls = << >> THEN << >>
    ELSE LET c == Last(calls)
         IN  StepsAfterAdd(BuildSteps(SubSeq(calls, 1, Len(calls) - 1)),
                           c[1], c[2], c[3], c[4])

\* The experiments run on the Model.
ModelExps ==
    { BuildSteps(cs) : cs \in { << DischargeToSoc >>, << Discharge, Rest >>,
                                << DischargeToSoc, ChargeToTime >>,
                                << ChargeToTime, Discharge >> } }

\* The calls the model makes keep the total time and the SOC in range.
InRange(lv) ==
    /\ lv.t0 <= MaxClock * Ticks
    /\ lv.sv0[1] >= 0 /\ lv.sv0[1] <= 2 * soc0

\* The shifts the solutions of a run are stitched with.
TShifts == {0, 1}

\* A Model and an Experiment with its steps added.
Init ==
    /\ steps \in ModelExps
    /\ exp_call = NoAddStep
    /\ exp_err = NoError
    /\ exp_opts = [options |-> NoOptions,
                   kwargs |-> [k \in 1..Len(steps) |-> NoOptions]]
    /\ InitModel
    /\ InitCycle

\* The oracle of a run in which the solver does not fail.
NoFailure(stps) == [k \in 1..Len(stps) |-> 0]

\* The StepSolutions the experiments give when run from the rested condition.
StepSolns ==
    UNION { { r.solns[i] : i \in 1..Len(r.solns) } :
              r \in { RunResult(Rested, e, TRUE, NoFailure(e)) : e \in ModelExps } }

\* The arguments pre is called with: True, False, or one of the solutions.
InitialStates(solns) ==
    { InitialState("True", NoStep), InitialState("False", NoStep) }
    \cup { InitialState("Solution", soln) : soln \in solns }

\* Model.pre(initial_state), a Solution being one of solns
PreWith(solns) ==
    \E initial_state \in InitialStates(solns) :
        \E r \in { PreResult(mdl, live, initial_state) } :
            /\ live' = r.live
            /\ mdl' = [mdl EXCEPT !.ptr = r.ptr]
            /\ mdl_call' = [NoCall EXCEPT !.op = "pre",
                                          !.initial_state = initial_state]
            /\ mdl_prev' = live
            /\ mdl_ret' = [NoReturn EXCEPT !.err = r.err, !.live = r.live]
            /\ UNCHANGED << expVars, exec, cycVars >>

\* Model.pre(initial_state), initial_state a bool
Pre == PreWith({ })

\* Model.run_step(exp, stepidx); stepidx counts from 1 here.
RunStep ==
    \E stepidx \in 1..num_steps, fail \in 0..MaxFail :
        \E r \in { RunStepResult(live, steps[stepidx], fail) } :
            /\ InRange(r.live)
            /\ live' = r.live
            /\ mdl_call' = [NoCall EXCEPT !.op = "run_step", !.idx = stepidx]
            /\ mdl_prev' = live
            /\ mdl_ret' = r
            /\ UNCHANGED << expVars, exec, cycVars, mdl >>

\* Model.run(exp, reset_state, t_shift): the solutions of the steps come
\* back stitched into one CycleSolution.
Run ==
    \E reset_state \in BOOLEAN, t_shift \in TShifts,
       oracle \in [1..num_steps -> 0..MaxFail] :
        \E r \in { RunResult(live, steps, reset_state, oracle) } :
            /\ InRange(r.live)
            /\ live' = r.live
            /\ mdl_call' = [NoCall EXCEPT !.op = "run", !.reset_state = reset_state,
                                          !.t_shift = t_shift,
                                          !.rerun = /\ mdl_call.op = "run"
                                                    /\ mdl_call.reset_state
                                                    /\ mdl_ret.err = NoError]
            /\ mdl_prev' = live
            /\ mdl_ret' = r
            /\ cyc' = IF r.err = NoError THEN CycleSolution(r.solns, t_shift)
                      ELSE cyc
            /\ UNCHANGED << expVars, exec, cyc_call, cyc_ret, mdl >>

Next == Pre \/ RunStep \/ Run

Spec == Init /\ [][Next]_vars

\* ------------------------------------------- the Model's construction and pre

\* Every key a caller gives or sets: 'Rj' and 'Cj' up to one pair beyond the
\* largest circuit, 'C0' included.
AllKeys == {"R", "C"} \X (0..(MaxRC + 1))

\* The resistances and capacitances of the 'params' a Model of n RC pairs is
\* constructed with: those of a circuit of n pairs or of another number,
\* those of n pairs with one left out, those of n pairs with one more.
ParamKeys(n) ==
    { BranchKeys(m) : m \in 0..MaxRC }
    \cup { BranchKeys(n) \ { k } : k \in BranchKeys(n) }
    \cup { BranchKeys(n) \cup { k } : k \in AllKeys }

\* The solution of a rest of a circuit of n RC pairs at its rested condition.
RestSolution(n) ==
    [ success |-> TRUE, status |-> 0, t |-> << 0, Ticks >>,
      y  |-> << RestedFor(n).sv0, RestedFor(n).sv0 >>,
      yp |-> << RestedFor(n).svdot0, RestedFor(n).svdot0 >> ]

\* The solutions pre is given: those of the experiments' steps that a limit
\* has ended, on a circuit of no RC pair, and a rest of every circuit with
\* some.
CircuitSolns ==
    { soln \in StepSolns : soln.status = 2 } \cup { RestSolution(n) : n \in 1..MaxRC }

\* model = Model(params): the parameters are checked and the pre-processor
\* runs at the end; a constructor that raises leaves the caller with the
\* Model it had.
Construct ==
    \E n \in 0..MaxRC :
      \E keys \in ParamKeys(n) :
        /\ mdl_call' = [NoCall EXCEPT !.op = "init", !.num_RC_pairs = n, !.keys = keys]
        /\ mdl_prev' = live
        /\ IF ParamsError(n, keys) = NoError
           THEN /\ mdl' = ModelOf(n, keys)
                /\ live' = PreResult(ModelOf(n, keys), live, InitialState("True", NoStep)).live
                /\ mdl_ret' = [NoReturn EXCEPT !.live = live']
           ELSE /\ mdl_ret' = [NoReturn EXCEPT !.err = ParamsError(n, keys), !.live = live]
                /\ UNCHANGED << mdl, live >>
        /\ UNCHANGED << expVars, exec, cycVars >>

\* model.num_RC_pairs = n
SetNumRCPairs ==
    \E n \in 0..MaxRC :
        /\ n # mdl.num_RC_pairs
        /\ mdl' = [mdl EXCEPT !.num_RC_pairs = n]
        /\ mdl_call' = [NoCall EXCEPT !.op = "set", !.num_RC_pairs = n]
        /\ mdl_prev' = live
        /\ mdl_ret' = [NoReturn EXCEPT !.live = live]
        /\ UNCHANGED << expVars, exec, cycVars, live >>

\* model.Rj = f or model.Cj = f, for a pair the circuit has
SetBranch ==
    \E key \in BranchKeys(mdl.num_RC_pairs) \ mdl.keys :
        /\ mdl' = [mdl EXCEPT !.keys = @ \cup { key }]
        /\ mdl_call' = [NoCall EXCEPT !.op = "set", !.keys = { key }]
        /\ mdl_prev' = live
        /\ mdl_ret' = [NoReturn EXCEPT !.live = live]
        /\ UNCHANGED << expVars, exec, cycVars, live >>

\* model.pre(initial_state), a Solution being one of the circuits' solutions
PreCircuit == PreWith(CircuitSolns)

NextCircuit == Construct \/ SetNumRCPairs \/ SetBranch \/ PreCircuit

SpecCircuit == InitExperiment /\ [][NextCircuit]_vars

\* ------------------------------------------- building an Experiment

\* The solver options given to Experiment(**kwargs) and to add_step.
OptionKeys == {"rtol", "atol"}

ExpOptionSets == { NoOptions, [k \in OptionKeys |-> 2] }

StepOptionSets ==
    { NoOptions, [k \in {"rtol"} |-> 1], [k \in OptionKeys |-> IF k = "rtol" THEN 2 ELSE 1] }

\* The add_step calls an Experiment is built with: a discharge, a rest, and
\* a call with a mode that is none.
AsCall(c) == << << c[1], c[2], c[4] >>, c[3] >>

BuildCalls ==
    { AsCall(Discharge), AsCall(Rest),
      << << "current", 1, << >> >>, TupleArg(2, Ticks, "int", 2) >> }

\* Experiment(**kwargs), and a Model.
InitBuild ==
    /\ steps = << >>
    /\ exp_call = NoAddStep
    /\ exp_err = NoError
    /\ exp_opts \in { ExperimentOptions(options) : options \in ExpOptionSets }
    /\ InitModel
    /\ InitCycle

\* add_step(mode, value, tspan, limits, **kwargs)
AddStepOptions == AddStepWith(BuildCalls, StepOptionSets, MaxLen)

\* The first call on the Model, with the steps added so far.
RunBuilt == num_steps > 0 /\ mdl_call = NoCall /\ Run

RunStepBuilt == num_steps > 0 /\ mdl_call = NoCall /\ RunStep

NextBuild == AddStepOptions \/ RunBuilt \/ RunStepBuilt

SpecBuild == InitBuild /\ [][NextBuild]_vars

\* ------------------------------------------- run_step, phase by phase

\* run_step(exp, stepidx) is called: the callables of the step are built.
BeginStep ==
    \E stepidx \in 1..num_steps, fail \in 0..MaxFail :
        /\ exec.phase \in {"IDLE"} \cup FinalPhases
        /\ InRange(RunStepResult(live, steps[stepidx], fail).live)
        /\ exec' = Initialized(stepidx, fail)
        /\ mdl_call' = [NoCall EXCEPT !.op = "run_step", !.idx = stepidx]
        /\ mdl_prev' = live
        /\ mdl_ret' = NoReturn
        /\ UNCHANGED << expVars, cycVars, live, mdl >>

\* The solver computes the consistent initial condition of the step.
InitStep ==
    /\ exec.phase = "INITIALIZED"
    /\ exec' = StartIntegration(exec, Rates(CurrentOf(steps[exec.idx])))
    /\ UNCHANGED << expVars, cycVars, live, mdl, mdl_call, mdl_prev, mdl_ret >>

\* The solver integrates over the time span of the step; run_step returns
\* the StepSolution or raises.
Integrate ==
    /\ exec.phase = "INTEGRATING"
    /\ \E res \in { Solve(steps[exec.idx], live.t0, live.sv0, exec.fail) } :
          /\ exec' = [exec EXCEPT !.phase = PhaseAfter(res)]
          /\ mdl_ret' = StepOutcome(live, res)
          /\ live' = StepOutcome(live, res).live
    /\ UNCHANGED << expVars, cycVars, mdl, mdl_call, mdl_prev >>

NextStep == BeginStep \/ InitStep \/ Integrate

SpecStep ==
    Init /\ [][NextStep]_vars /\ WF_vars(InitStep) /\ WF_vars(Integrate)

\* ------------------------------------------- the Model's rhs_funcs

\* The relative times, currents, cell voltages, efficiencies and loads the
\* right hand side is evaluated at.
RhsTimes == 0..MaxTmax

RhsCurrents == {0 - 1, 0, 1}

RhsVoltages == {1, 2}

Efficiencies == {Unity \div 2, Unity - 1, Unity}

RhsValues ==
    { Constant(v) : v \in 0..1 }
    \cup { Callable(f) : f \in { [t \in RhsTimes |-> t], [t \in RhsTimes |-> 1 - t] } }

\* Model.rhs_funcs(t, sv, inputs), inputs being the dictionary of a step
RhsFuncs ==
    \E t \in RhsTimes, I \in RhsCurrents, V_cell \in RhsVoltages,
       mode \in Modes, value \in RhsValues, ce \in Efficiencies :
        /\ mdl_call' = [op |-> "rhs_funcs", t |-> t, current |-> I,
                        V_cell |-> V_cell, ce |-> ce,
                        inputs |-> [mode |-> mode, value |-> value]]
        /\ mdl_prev' = live
        /\ mdl_ret' = [err |-> NoError, ok |-> TRUE,
                       rhs |-> RhsFuncsResult(t, I, V_cell,
                                              [mode |-> mode, value |-> value], ce)]
        /\ UNCHANGED << expVars, exec, cycVars, live, mdl >>

NextRhs == RhsFuncs

SpecRhs == InitExperiment /\ [][NextRhs]_vars

\* ------------------------------------------- the CycleSolution's state machine

\* soln = model.run(exp, reset_state, t_shift) on the new Model
RunExperiment == mdl_call = NoCall /\ Run

\* soln.get_steps(idx), idx an int
GetStepsInt ==
    \E idx \in 0..(Len(cyc.solns) - 1) :
        /\ cyc_call' = [op |-> "get_step", first |-> idx, last |-> idx]
        /\ cyc_ret' = [step |-> GetStep(cyc, idx), cycle |-> NoCycle]
        /\ UNCHANGED << expVars, mdlVars, cyc >>

\* soln.get_steps((first, last))
GetStepsTuple ==
    \E first \in 0..(Len(cyc.solns) - 1) :
      \E last \in first..(Len(cyc.solns) - 1) :
        /\ cyc_call' = [op |-> "get_range", first |-> first, last |-> last]
        /\ cyc_ret' = [step |-> NoStep, cycle |-> GetRange(cyc, first, last)]
        /\ UNCHANGED << expVars, mdlVars, cyc >>

\* One more StepSolution appended to the CycleSolution.
AppendSolution ==
    \E soln \in StepSolns :
        /\ Len(cyc.solns) >= 1 /\ Len(cyc.solns) < MaxCycle
        /\ cyc' = Appended(cyc, soln)
        /\ cyc_call' = [op |-> "append", first |-> 0, last |-> 0]
        /\ cyc_ret' = NoCycleReturn
        /\ UNCHANGED << expVars, mdlVars >>

\* A run_step, and a pre, after the run that returned the CycleSolution
LaterRunStep == mdl_call.op # "none" /\ RunStep

LaterPre == mdl_call.op # "none" /\ Pre

NextHold ==
    RunExperiment \/ GetStepsInt \/ GetStepsTuple \/ LaterRunStep \/ LaterPre

SpecHold == Init /\ [][NextHold]_vars

NextCycle == RunExperiment \/ GetStepsInt \/ GetStepsTuple \/ AppendSolution

SpecCycle == Init /\ [][NextCycle]_vars

\* ------------------------------------------------ claims on add_step

\* A time array that starts at 0, is strictly increasing and has length >= 2.
ValidTime(a) == Len(a) >= 2 /\ a[1] = 0 /\ Increasing(a)

\* A stored step no later call can find misconfigured.
ValidStep(st) ==
    /\ st.mode \in Modes
    /\ \A i \in 1..Len(st.limits) : st.limits[i][1] \in LimitNames
    /\ ValidTime(st.tspan)

\* The number of samples of a equal to x.
Count(a, x) == Cardinality({ i \in 1..Len(a) : a[i] = x })

\* C6: an add_step call that raises leaves the step list and num_steps as
\* they were before the call, and every step that is stored is a valid one,
\* so that no configuration error is left to be found during integration.
C6_FailFast ==
    [][ /\ exp_err' # NoError => (steps' = steps /\ num_steps' = num_steps)
        /\ \A i \in 1..Len(steps') : ValidStep(steps'[i]) ]_expVars

\* C6 witness: a call has raised on an Experiment that holds a step.
C6_Witness == exp_err # NoError /\ num_steps >= 1

\* C9: every stored step's time array starts at 0, is strictly increasing
\* and has length >= 2, whatever form of tspan add_step was given.
C9_ValidTimes == \A i \in 1..Len(steps) : ValidTime(steps[i].tspan)

\* C9 witness: a step is stored from a (t_max, dt) with dt >= t_max, which
\* is normalised to the two samples 0 and t_max.
C9_Witness ==
    /\ exp_err = NoError /\ exp_call.type = "float" /\ num_steps >= 1
    /\ Last(steps).tspan = << 0, exp_call.t_max >>

\* C10: given (t_max, dt) with float dt, the stored time array ends with
\* t_max, and t_max appears in it exactly once.
C10_EndsAtTmax ==
    (exp_err = NoError /\ exp_call.form = "tuple" /\ exp_call.type = "float")
        => /\ Last(Last(steps).tspan) = exp_call.t_max
           /\ Count(Last(steps).tspan, exp_call.t_max) = 1

\* C10 witness: dt does not divide t_max, and the last interval of the
\* stored array is shorter than the others.
C10_Witness ==
    /\ exp_err = NoError /\ exp_call.form = "tuple" /\ exp_call.type = "float"
    /\ LET a == Last(steps).tspan
       IN  Len(a) >= 3 /\ a[Len(a)] - a[Len(a) - 1] < a[2] - a[1]

\* The errors of add_step that are a ValueError.
ValueErrors ==
    {"ValueError: mode", "ValueError: limits", "ValueError: tspan tuple length",
     "ValueError: linspace samples", "ValueError: tspan one-dimensional",
     "ValueError: tspan[0] zero", "ValueError: tspan length",
     "ValueError: tspan increasing"}

\* The call's mode and every limit name of it are of the vocabulary.
InVocabulary(call) ==
    /\ call.mode \in {"current_A", "current_C", "voltage_V", "power_W"}
    /\ \A i \in 1..Len(call.names) :
          call.names[i] \in {"soc", "temperature_K", "current_A", "current_C",
                             "voltage_V", "power_W", "capacity_Ah", "time_s",
                             "time_min", "time_h"}

\* C11: add_step accepts a step only if its mode is one of the four control
\* modes and every limit name is one of the ten limit names; a call with any
\* other mode or limit name raises a ValueError, and stores nothing.
C11_Vocabulary ==
    [][ /\ (exp_err' = NoError /\ steps' # steps) => InVocabulary(exp_call')
        /\ ~InVocabulary(exp_call') => (exp_err' \in ValueErrors /\ steps' = steps)
      ]_expVars

\* C11 witness: a call whose first limit name is of the vocabulary and whose
\* second is not has raised.
C11_Witness ==
    /\ exp_err \in ValueErrors
    /\ exp_call.mode = "current_C" /\ Len(exp_call.names) = 2
    /\ exp_call.names[1] = "soc" /\ exp_call.names[2] = "time"

\* ------------------------------------------------ claims on run_step and run

\* The state and the derivative a solution ends with.
EndsAt(soln, lv) == lv.sv0 = Last(soln.y) /\ lv.svdot0 = Last(soln.yp)

\* The solution has a terminal event as its last sample.
EndedByEvent(soln) == soln.status = 2

C2_ResetToRested ==
    (mdl_call.op = "run" /\ mdl_call.reset_state /\ mdl_ret.err = NoError)
        => live = Rested

\* C2 witness: a run with reset_state = True of two steps has returned, one
\* of them ended by a limit and one by its full time span, and the last step
\* ended away from the rested condition.
C2_Witness ==
    /\ mdl_call.op = "run" /\ mdl_call.reset_state /\ mdl_ret.err = NoError
    /\ Len(mdl_ret.solns) = 2
    /\ \E i, j \in 1..2 : EndedByEvent(mdl_ret.solns[i])
                            /\ ~EndedByEvent(mdl_ret.solns[j])
    /\ Last(Last(mdl_ret.solns).y) # Rested.sv0

\* C3: after run(exp, reset_state = False) has returned, the live state is
\* the final reached state of the last step: its last state and derivative.
C3_KeepsFinalState ==
    (mdl_call.op = "run" /\ ~mdl_call.reset_state /\ mdl_ret.err = NoError)
        => EndsAt(Last(mdl_ret.solns), live)

\* C3 witness: such a run has returned and left the live state away from the
\* rested condition.
C3_Witness ==
    /\ mdl_call.op = "run" /\ ~mdl_call.reset_state /\ mdl_ret.err = NoError
    /\ live.sv0 # Rested.sv0 /\ live.svdot0 # Rested.svdot0

\* C4: when run_step ends by success or by a terminal event, the live state
\* is the final reached state of the step, and the step has started from
\* the live state the call found: the final state of the step executed
\* before it, when no pre() came in between. The steps of one run hand the
\* state over in the same way.
C4_HandOff ==
    /\ (mdl_call.op = "run_step" /\ mdl_ret.err = NoError)
          => /\ EndsAt(mdl_ret.solns[1], live)
             /\ mdl_ret.solns[1].y[1] = mdl_prev.sv0
    /\ (mdl_call.op = "run" /\ mdl_ret.err = NoError)
          => /\ mdl_ret.solns[1].y[1] = mdl_prev.sv0
             /\ \A k \in 1..(Len(mdl_ret.solns) - 1) :
                    mdl_ret.solns[k + 1].y[1] = Last(mdl_ret.solns[k].y)

\* C4 witness: the second step of an experiment has been run from the state
\* the first left, and a terminal event has ended it.
C4_Witness ==
    /\ mdl_call.op = "run_step" /\ mdl_call.idx = 2 /\ mdl_ret.err = NoError
    /\ mdl_prev.sv0 # Rested.sv0
    /\ EndedByEvent(mdl_ret.solns[1])
    /\ live.sv0 # mdl_prev.sv0

RunReturned == mdl_call.op = "run" /\ mdl_ret.err = NoError

\* The live state is the rested condition of a circuit of no RC pair, with
\* no stored time offset and no derivative.
IsRested(lv) ==
    lv.t0 = 0 /\ lv.sv0 = << soc0, 0, T_inf >> /\ lv.svdot0 = << 0, 0, 0 >>

StepReturned == mdl_call.op = "run_step" /\ mdl_ret.err = NoError

\* The value of a limit's event function at relative time t and state y of
\* a step started at total time t0: 'soc' watches the SOC, a time limit the
\* total experiment time.
EventValue(lim, t0, t, y) ==
    IF lim[1] = "soc" THEN y[1] - lim[2] ELSE t0 + t - lim[2]

\* The limit's event function, away from zero at the start y0 of the step,
\* is at zero or beyond at relative time t and state y.
CrossedAt(lim, t0, y0, t, y) ==
    /\ EventValue(lim, t0, 0, y0) # 0
    /\ EventValue(lim, t0, 0, y0) * EventValue(lim, t0, t, y) <= 0

\* The limit is reached at sample k of the solution of a step started at t0.
Reached(lim, t0, soln, k) == CrossedAt(lim, t0, soln.y[1], soln.t[k], soln.y[k])

\* C17: every limit of a step is terminal and none has priority: no limit,
\* whichever its index, is reached at a sample before the last one of the
\* step's solution; when a limit is reached at the last sample the step has
\* ended by an event, and no limit was reached one tick before it.
C17_FirstCrossing ==
    StepReturned =>
        LET soln == mdl_ret.solns[1]
            step == steps[mdl_call.idx]
            t0 == mdl_prev.t0
            n == Len(soln.t)
        IN  /\ \A i \in 1..Len(step.limits), k \in 1..(n - 1) :
                  ~Reached(step.limits[i], t0, soln, k)
            /\ (\E i \in 1..Len(step.limits) : Reached(step.limits[i], t0, soln, n))
                  => /\ EndedByEvent(soln)
                     /\ \A i \in 1..Len(step.limits) :
                            ~CrossedAt(step.limits[i], t0, soln.y[1], soln.t[n] - 1,
                                       StateAt(soln.y[1], CurrentOf(step), soln.t[n] - 1))

\* C17 witness: a step of two limits has ended at the crossing of its second
\* limit, short of its time span, the first limit not reached.
C17_Witness ==
    /\ StepReturned
    /\ Len(steps[mdl_call.idx].limits) = 2
    /\ EndedByEvent(mdl_ret.solns[1])
    /\ Last(mdl_ret.solns[1].t) < Last(steps[mdl_call.idx].tspan)
    /\ Reached(steps[mdl_call.idx].limits[2], mdl_prev.t0, mdl_ret.solns[1],
               Len(mdl_ret.solns[1].t))
    /\ ~Reached(steps[mdl_call.idx].limits[1], mdl_prev.t0, mdl_ret.solns[1],
                Len(mdl_ret.solns[1].t))

\* Some limit of the step is reached at sample k of its solution.
AnyReached(step, t0, soln, k) ==
    \E i \in 1..Len(step.limits) : Reached(step.limits[i], t0, soln, k)

\* No limit of the step, started at t0 from y0, is reached within its time
\* span: none is crossed at the end of the span (the SOC and the time move
\* one way over a step).
NeverReached(step, t0, y0) ==
    \A i \in 1..Len(step.limits) :
        ~CrossedAt(step.limits[i], t0, y0, Last(step.tspan),
                   StateAt(y0, CurrentOf(step), Last(step.tspan)))

\* C18: a step none of whose limits is reached within its time span runs
\* over the full span: its solution records every requested time and no
\* other, ends at the final value of the step's time array, and is not
\* ended by an event.
C18_FullSpan ==
    (StepReturned /\ NeverReached(steps[mdl_call.idx], mdl_prev.t0, mdl_prev.sv0))
        => /\ mdl_ret.solns[1].t = steps[mdl_call.idx].tspan
           /\ Last(mdl_ret.solns[1].t) = Last(steps[mdl_call.idx].tspan)
           /\ ~EndedByEvent(mdl_ret.solns[1])

\* C18 witness: a step with a SOC limit has run over its full time span, the
\* SOC moving towards the limit and ending short of it.
C18_Witness ==
    /\ StepReturned
    /\ steps[mdl_call.idx].limits # << >>
    /\ NeverReached(steps[mdl_call.idx], mdl_prev.t0, mdl_prev.sv0)
    /\ Last(mdl_ret.solns[1].y)[1] # mdl_prev.sv0[1]
    /\ \E i \in 1..Len(steps[mdl_call.idx].limits) :
          /\ steps[mdl_call.idx].limits[i][1] = "soc"
          /\ EventValue(steps[mdl_call.idx].limits[i], mdl_prev.t0, 0, mdl_prev.sv0)
                * CurrentOf(steps[mdl_call.idx]) > 0

\* The statuses of the solutions ended by a limit, and of those that ran
\* over the full time span of their step.
EventStatuses ==
    { mdl_ret.solns[k].status : k \in { j \in 1..Len(mdl_ret.solns) :
          Last(mdl_ret.solns[j].t) < Last(steps[IF mdl_call.op = "run" THEN j
                                                ELSE mdl_call.idx].tspan) } }

FullSpanStatuses ==
    { mdl_ret.solns[k].status : k \in { j \in 1..Len(mdl_ret.solns) :
          /\ Last(mdl_ret.solns[j].t) = Last(steps[IF mdl_call.op = "run" THEN j
                                                   ELSE mdl_call.idx].tspan)
          /\ steps[IF mdl_call.op = "run" THEN j ELSE mdl_call.idx].limits = << >> } }

\* C19: the end of a step by a limit is not an error: the call returns a
\* StepSolution whose success flag is true, and whose status is not the
\* status of a solution that ran over the full time span of its step.
C19_EventIsSuccess ==
    /\ StepReturned =>
          /\ mdl_ret.ok /\ mdl_ret.solns[1].success
          /\ AnyReached(steps[mdl_call.idx], mdl_prev.t0, mdl_ret.solns[1],
                        Len(mdl_ret.solns[1].t))
                => mdl_ret.solns[1].status \notin {0, -1}
          /\ NeverReached(steps[mdl_call.idx], mdl_prev.t0, mdl_prev.sv0)
                => mdl_ret.solns[1].status = 0
    /\ mdl_ret.err = NoError =>
          /\ \A k \in 1..Len(mdl_ret.solns) : mdl_ret.solns[k].success
          /\ EventStatuses \cap FullSpanStatuses = { }

\* C19 witness: a run has returned the solution of a step ended by a limit,
\* short of its time span, and the solution of a step run over its full span.
C19_Witness ==
    /\ RunReturned
    /\ EventStatuses # { } /\ FullSpanStatuses # { }
    /\ \A k \in 1..Len(mdl_ret.solns) : mdl_ret.solns[k].success

\* The time limits of a step.
TimeLimits(step) ==
    { step.limits[i][2] : i \in { j \in 1..Len(step.limits) :
                                    step.limits[j][1] = "time_s" } }

SolutionOf(soln, step) ==
    /\ \A k \in 1..Len(soln.yp) : soln.yp[k] = Rates(CurrentOf(step))
    /\ \A k \in 1..(Len(soln.t) - 1) : soln.t[k] = step.tspan[k]
    /\ ~EndedByEvent(soln) => soln.t = step.tspan

\* C21: run(exp) calls run_step for every step once, in the order 0, 1, ...,
\* num_steps - 1 of the indices (1, ..., num_steps here), stopping at a
\* failure; the CycleSolution it returns holds one StepSolution per
\* LoadStep, in the order of the steps.
C21_InOrder ==
    mdl_call.op = "run" =>
        /\ mdl_ret.order = [k \in 1..Len(mdl_ret.order) |-> k]
        /\ mdl_ret.nsolve = Len(mdl_ret.order)
        /\ mdl_ret.err = NoError =>
              /\ Len(mdl_ret.order) = num_steps
              /\ Len(mdl_ret.solns) = num_steps
              /\ \A k \in 1..num_steps : SolutionOf(mdl_ret.solns[k], steps[k])
              /\ cyc.solns = mdl_ret.solns

\* C21 witness: a run of two steps of different currents has returned.
C21_Witness ==
    /\ RunReturned /\ num_steps = 2
    /\ CurrentOf(steps[1]) # CurrentOf(steps[2])
    /\ Len(cyc.solns) = 2 /\ cyc.solns[1] # cyc.solns[2]

\* ------------------------------------------------ claims on the Experiment

\* A call of add_step has stored a step.
StepAdded == Len(steps') = Len(steps) + 1

\* C24: the options of a step hold every key of the Experiment's options and
\* every key the step was given, the step's own value for the keys it was
\* given and the Experiment's for the others; the call changes neither the
\* options of the Experiment nor those of the steps before.
C24_MergedOptions ==
    [][ StepAdded =>
          LET eff == Last(exp_opts'.kwargs)
              own == exp_call'.kwargs
          IN  /\ Len(exp_opts'.kwargs) = Len(steps')
              /\ DOMAIN eff = DOMAIN exp_opts.options \cup DOMAIN own
              /\ \A k \in DOMAIN own : eff[k] = own[k]
              /\ \A k \in DOMAIN exp_opts.options \ DOMAIN own :
                    eff[k] = exp_opts.options[k]
              /\ exp_opts'.options = exp_opts.options
              /\ SubSeq(exp_opts'.kwargs, 1, Len(steps)) = exp_opts.kwargs ]_vars

\* C24 witness: of two steps of an Experiment with options, one has its own
\* value for a key and the other has the Experiment's.
C24_Witness ==
    /\ num_steps = 2
    /\ \E k \in DOMAIN exp_opts.options :
          /\ exp_opts.kwargs[1][k] # exp_opts.options[k]
          /\ exp_opts.kwargs[2][k] = exp_opts.options[k]

\* C25: add_step appends: a call that stores a step raises nothing, adds
\* one to num_steps, puts the step of the call last and leaves the steps
\* before as they were; a call that raises leaves the steps; a run or a
\* run_step leaves the Experiment as it was.
C25_AppendOnly ==
    [][ /\ steps' # steps =>
              /\ StepAdded
              /\ exp_err' = NoError
              /\ SubSeq(steps', 1, Len(steps)) = steps
              /\ Last(steps').mode = exp_call'.mode
              /\ Last(Last(steps').tspan) = exp_call'.t_max
        /\ (exp_call' # exp_call /\ exp_err' # NoError) => steps' = steps
        /\ mdl_call' # mdl_call =>
              /\ mdl_call'.op \in {"run", "run_step"}
              /\ steps' = steps /\ exp_opts' = exp_opts
              /\ exp_call' = exp_call /\ exp_err' = exp_err ]_vars

\* C25 witness: a rest was added after a discharge, and the Model has run.
C25_Witness ==
    /\ num_steps = 2
    /\ CurrentOf(steps[1]) = 1 /\ CurrentOf(steps[2]) = 0
    /\ mdl_call.op \in {"run", "run_step"}

\* ------------------------------------------------ claims on the phases

Sign(x) == IF x > 0 THEN 1 ELSE IF x < 0 THEN 0 - 1 ELSE 0

\* C22: a positive current has a negative SOC rate and decreases the SOC
\* over any time of a step, a negative current a positive rate and an
\* increase, zero current no change; the rate of a positive current does not
\* depend on ce (ce is taken as one), the rate of a negative current is
\* scaled by ce.
C22_SocRate ==
    mdl_call.op = "rhs_funcs" =>
        LET I == mdl_call.current
            ce == mdl_call.ce
            rate == mdl_ret.rhs.soc
        IN  /\ Sign(rate) = 0 - Sign(I)
            /\ I > 0 => rate = 0 - I * Unity
            /\ I < 0 => rate = 0 - I * ce
            /\ ce = Unity => rate = Rates(I)[1] * Unity
            /\ \A t \in 1..MaxTmax :
                  Sign(StateAt(Rested.sv0, I, t)[1] - Rested.sv0[1]) = 0 - Sign(I)

\* C22 witness: the rate of a discharge was evaluated on a Model of an
\* efficiency below one.
C22_Witness ==
    /\ mdl_call.op = "rhs_funcs"
    /\ mdl_call.current > 0 /\ mdl_call.ce < Unity
    /\ mdl_ret.rhs.soc = 0 - mdl_call.current * Unity

\* The target of a step at relative time t, a constant and a callable alike.
TargetAt(value, t) == IF value.callable THEN value.f[t] ELSE value.v

\* C26: the residual of the control slot is selected by the mode alone:
\* I - target for 'current_A', I - capacity * target for 'current_C',
\* V_cell - target for 'voltage_V', I * V_cell - target for 'power_W', the
\* target being the constant value or the callable at the relative time t.
C26_ControlClosure ==
    mdl_call.op = "rhs_funcs" =>
        LET I == mdl_call.current
            V_cell == mdl_call.V_cell
            mode == mdl_call.inputs.mode
            target == TargetAt(mdl_call.inputs.value, mdl_call.t)
            control == mdl_ret.rhs.control
        IN  /\ mode = "current_A" => control = I - target
            /\ mode = "current_C" => control = I - capacity * target
            /\ mode = "voltage_V" => control = V_cell - target
            /\ mode = "power_W" => control = I * V_cell - target
            /\ mode \in Modes

\* C26 witness: the control slot of a power-controlled step with a callable
\* load was evaluated after the start of the step, where the load differs
\* from its value at the start.
C26_Witness ==
    /\ mdl_call.op = "rhs_funcs"
    /\ mdl_call.inputs.mode = "power_W"
    /\ mdl_call.inputs.value.callable
    /\ mdl_call.t > 0
    /\ mdl_call.inputs.value.f[mdl_call.t] # mdl_call.inputs.value.f[0]
    /\ mdl_ret.rhs.control = 0

\* ------------------------------------------------ claims on CycleSolution

\* The number of stitched samples that come before those of step i.
RECURSIVE SamplesBefore(_, _)
SamplesBefore(solns, i) ==
    IF i <= 1 THEN 0 ELSE SamplesBefore(solns, i - 1) + Len(solns[i - 1].t)

\* The places of the stitched arrays where a step ends and another follows.
Boundaries(c) == { SamplesBefore(c.solns, i) : i \in 2..Len(c.solns) }

\* C7, as claimed: the stitched time array is strictly increasing, whatever
\* t_shift, zero included, and after any append.
C7_StrictlyIncreasing == Increasing(cyc.t)

\* C7, amended: with a positive t_shift the stitched time array is strictly
\* increasing, after any append too; with t_shift = 0 it is non-decreasing,
\* the first time of each step being equal to the last time of the step
\* before it and every other sample later than the one before it.
C7_Monotone ==
    /\ cyc.t_shift > 0 => Increasing(cyc.t)
    /\ cyc.t_shift = 0 =>
          \A k \in 1..(Len(cyc.t) - 1) :
              IF k \in Boundaries(cyc) THEN cyc.t[k + 1] = cyc.t[k]
              ELSE cyc.t[k + 1] > cyc.t[k]

\* C7 witness: a StepSolution has been appended to a CycleSolution stitched
\* with a positive t_shift, which now has three steps.
C7_Witness ==
    cyc_call.op = "append" /\ cyc.t_shift > 0 /\ Len(cyc.solns) = 3

\* C8: get_steps(i) returns a StepSolution whose series are those step i has
\* in the stitched arrays, the states equal and the times equal up to the
\* shift of the step's first sample; get_steps((a, b)) returns a
\* CycleSolution of exactly the steps a..b in their order, whose stitched
\* series are those the steps a..b have in the original.
C8_RoundTrip ==
    /\ cyc_call.op = "get_step" =>
          LET off == SamplesBefore(cyc.solns, cyc_call.first + 1)
              n   == SamplesBefore(cyc.solns, cyc_call.first + 2) - off
              s   == cyc_ret.step
          IN  /\ Len(s.t) = n /\ Len(s.y) = n
              /\ \A k \in 1..n :
                    /\ s.y[k] = cyc.y[off + k]
                    /\ s.t[k] - s.t[1] = cyc.t[off + k] - cyc.t[off + 1]
    /\ cyc_call.op = "get_range" =>
          LET off == SamplesBefore(cyc.solns, cyc_call.first + 1)
              n   == SamplesBefore(cyc.solns, cyc_call.last + 2) - off
              r   == cyc_ret.cycle
          IN  /\ Len(r.solns) = cyc_call.last - cyc_call.first + 1
              /\ \A j \in 1..Len(r.solns) :
                    r.solns[j] = cyc.solns[cyc_call.first + j]
              /\ Len(r.t) = n /\ Len(r.y) = n
              /\ \A k \in 1..n :
                    /\ r.y[k] = cyc.y[off + k]
                    /\ r.t[k] - r.t[1] = cyc.t[off + k] - cyc.t[off + 1]

\* C8 witness: a range of two steps that does not start at the first has
\* been taken out of a CycleSolution stitched with a positive t_shift.
C8_Witness ==
    /\ cyc_call.op = "get_range" /\ cyc_call.first >= 1
    /\ cyc_call.last > cyc_call.first /\ cyc.t_shift > 0
    /\ cyc_ret.cycle.t[1] # cyc.t[SamplesBefore(cyc.solns, cyc_call.first + 1) + 1]

\* ------------------------------------------------ claims on Model and pre

\* The keys are R0 and the pairs R1..Rn and C1..Cn, and no other.
ExactPairs(n, keys) ==
    /\ keys \subseteq AllKeys
    /\ \A k \in AllKeys :
          k \in keys <=> (k = << "R", 0 >> \/ (k[2] >= 1 /\ k[2] <= n))

\* The errors of a circuit whose resistances and capacitances do not match
\* its num_RC_pairs.
ParamValueErrors == {"ValueError: params excess", "ValueError: params missing"}

\* C12: for every num_RC_pairs n, the construction of a Model succeeds only
\* with exactly R0, R1..Rn and C1..Cn, and so does pre(); a pair left out or
\* an excess Rj or Cj, any Rj or Cj when n = 0 included, raises a ValueError.
C12_ExactPairs ==
    /\ mdl_call.op = "init" =>
          /\ mdl_ret.err = NoError <=> ExactPairs(mdl_call.num_RC_pairs, mdl_call.keys)
          /\ mdl_ret.err # NoError => mdl_ret.err \in ParamValueErrors
    /\ mdl_call.op = "pre" =>
          /\ mdl_ret.err = NoError => ExactPairs(mdl.num_RC_pairs, mdl.keys)
          /\ ~ExactPairs(mdl.num_RC_pairs, mdl.keys) => mdl_ret.err \in ParamValueErrors

\* C12 witness: pre() has raised on a Model whose num_RC_pairs was set to 0
\* while it has a C1.
C12_Witness ==
    /\ mdl_call.op = "pre" /\ mdl_ret.err \in ParamValueErrors
    /\ mdl.num_RC_pairs = 0 /\ << "C", 1 >> \in mdl.keys

\* The indices the pointers give to the quantities of the state vector.
Slots(ptr) ==
    { ptr.soc, ptr.hyst, ptr.T_cell } \cup { ptr.eta_j[j] : j \in 1..Len(ptr.eta_j) }

C14_SizeMismatch ==
    /\ Len(live.sv0) = mdl.ptr.size
    /\ (mdl_call.op = "pre" /\ mdl_call.initial_state.kind = "False"
          /\ Len(mdl_prev.sv0) # mdl.num_RC_pairs + 3)
          => (mdl_ret.err # NoError /\ live = mdl_prev)
    /\ (mdl_call.op = "pre" /\ mdl_call.initial_state.kind = "Solution"
          /\ Len(Last(mdl_call.initial_state.soln.y)) # mdl.num_RC_pairs + 3)
          => (mdl_ret.err # NoError /\ live = mdl_prev)

\* C14 witness: num_RC_pairs was raised from 1 to 2, R2 and C2 were set, and
\* pre(initial_state=False) has raised for the size of the state.
C14_Witness ==
    /\ mdl_call.op = "pre" /\ mdl_call.initial_state.kind = "False"
    /\ mdl_ret.err = SizeError
    /\ mdl.num_RC_pairs = 2 /\ Len(live.sv0) = 4

\* C15: pre(initial_state=True) sets the live state to the rested condition
\* at soc0 whatever it was; pre(initial_state=False) leaves the live state as
\* it was; pre(initial_state=soln) sets it to the final state of soln.
C15_PreState ==
    (mdl_call.op = "pre" /\ mdl_ret.err = NoError) =>
        LET n == mdl.num_RC_pairs
            initial_state == mdl_call.initial_state
        IN  /\ initial_state.kind = "True" =>
                  /\ live.t0 = 0
                  /\ live.sv0 = << soc0, 0 >> \o [j \in 1..n |-> 0] \o << T_inf >>
                  /\ live.svdot0 = [i \in 1..(n + 3) |-> 0]
            /\ initial_state.kind = "False" => live = mdl_prev
            /\ initial_state.kind = "Solution" =>
                  /\ live.sv0 = Last(initial_state.soln.y)
                  /\ live.svdot0 = Last(initial_state.soln.yp)

\* C15 witness: pre(initial_state=True) has reset a live state that was away
\* from the rested condition.
C15_Witness ==
    /\ mdl_call.op = "pre" /\ mdl_ret.err = NoError
    /\ mdl_call.initial_state.kind = "True"
    /\ mdl_prev.sv0[1] # soc0 /\ mdl_prev.svdot0[1] # 0

\* The stitched times of c pass each step boundary by t_shift.
ShiftedAtBoundaries(c) ==
    \A b \in Boundaries(c) : c.t[b + 1] = c.t[b] + c.t_shift

\* The stitched states of c are equal on the two sides of each step boundary.
SameStateAtBoundaries(c) ==
    \A b \in Boundaries(c) : c.y[b + 1] = c.y[b]

\* C27, as claimed: at each step boundary of a CycleSolution the first
\* stitched time of the later step is the last stitched time of the step
\* before plus t_shift, and the states of the two samples are equal.
C27_SameInstant == ShiftedAtBoundaries(cyc) /\ SameStateAtBoundaries(cyc)

\* C27, amended: at each step boundary of a CycleSolution, and of a range
\* taken from it, the first stitched time of the later step is the last
\* stitched time of the step before plus t_shift (the same time when
\* t_shift = 0); when the solutions are those of the steps of one run, each
\* step started from the state the step before left, the states of the two
\* samples are equal.
C27_Boundary ==
    /\ ShiftedAtBoundaries(cyc)
    /\ ShiftedAtBoundaries(cyc_ret.cycle)
    /\ (RunReturned /\ cyc.solns = mdl_ret.solns) =>
          /\ SameStateAtBoundaries(cyc)
          /\ SameStateAtBoundaries(cyc_ret.cycle)

\* C27 witness: a run of two steps has returned a CycleSolution with a
\* positive t_shift, the first step having moved the state.
C27_Witness ==
    /\ RunReturned /\ cyc.solns = mdl_ret.solns
    /\ Len(cyc.solns) = 2 /\ cyc.t_shift > 0
    /\ \E b \in Boundaries(cyc) :
          /\ cyc.y[b] # Rested.sv0
          /\ cyc.y[b + 1] = cyc.y[b]
          /\ cyc.t[b + 1] = cyc.t[b] + cyc.t_shift

\* ------------------------------------------------ claims on run and run_step

\* The caller's protocol: run_step(exp, k), ..., run_step(exp, last) in
\* order from live state lv, the solver not failing: the solutions and the
\* live state it ends with.
RECURSIVE StepByStep(_, _, _, _)
StepByStep(lv, stps, k, last) ==
    IF k > last THEN [live |-> lv, solns |-> << >>]
    ELSE CHOOSE out \in
           { [live |-> rest.live, solns |-> r.solns \o rest.solns] :
               rest \in { StepByStep(r.live, stps, k + 1, last) :
                            r \in { RunStepResult(lv, stps[k], 0) } },
               r \in { RunStepResult(lv, stps[k], 0) } } : TRUE

\* C29: from the same live state, run(exp, reset_state = False, t_shift)
\* gives the step solutions and the final live state of run_step(exp, 0),
\* ..., run_step(exp, num_steps - 1) called in order, and its CycleSolution
\* is those solutions stitched with the same t_shift.
C29_RunIsStepByStep ==
    (RunReturned /\ ~mdl_call.reset_state) =>
        \A p \in { StepByStep(mdl_prev, steps, 1, num_steps) } :
            /\ mdl_ret.solns = p.solns
            /\ live = p.live
            /\ cyc = CycleSolution(p.solns, mdl_call.t_shift)

\* C29 witness: a run of two steps with a positive t_shift has returned,
\* started from a live state that earlier steps had left.
C29_Witness ==
    /\ RunReturned /\ ~mdl_call.reset_state
    /\ mdl_call.t_shift > 0 /\ num_steps = 2
    /\ mdl_prev.t0 > 0 /\ mdl_prev.sv0 # Rested.sv0
    /\ live # mdl_prev

====
